---- MODULE Spec2Model ----
(***************************************************************************)
(* Model of JmlcHornCalculator (src/src/lib/jmlc.ts): the profile solver   *)
(* generateProfile with its two regimes (bisection solver, accelerated     *)
(* spiral) and the two exporters generateCSV and generateLog.              *)
(*                                                                         *)
(* Numbers.  A JavaScript number is modelled as a fixed-point integer with *)
(* four decimal places (the value v stands for v / ONE).  Values whose     *)
(* magnitude exceeds INF saturate to +-INF, the way a double overflows to  *)
(* +-Infinity.  All intermediate products are split so that they stay      *)
(* inside the 32-bit integers of the model checker.                        *)
(***************************************************************************)
EXTENDS Integers, Sequences, FiniteSets, TLC

\* ------------------------------------------------------------ numbers

\* One unit of the fixed-point representation of a number (1.0).
ONE == 10000

\* Largest finite magnitude; anything beyond is Infinity.
INF == 1000000000

Abs(a) == IF a < 0 THEN -a ELSE a

Sgn(a) == IF a < 0 THEN -1 ELSE IF a > 0 THEN 1 ELSE 0

Clamp(a) == IF a > INF THEN INF ELSE IF a < -INF THEN -INF ELSE a

\* a + b on numbers, saturating.
FAdd(a, b) == Clamp(a + b)

\* floor(a * b / ONE) for 0 <= a, b <= INF, by parts that fit in 32 bits.
MulNat(a, b) ==
    LET a1 == a \div ONE
        a0 == a % ONE
        b1 == b \div ONE
        b0 == b % ONE
        low == a1 * b0 + a0 * b1 + ((a0 * b0) \div ONE)
    IN  IF a1 = 0 \/ b1 = 0 THEN low
        ELSE IF a1 > (INF \div ONE) \div b1 THEN INF
        ELSE IF a1 * b1 > (INF - low) \div ONE THEN INF
        ELSE a1 * b1 * ONE + low

\* a * b on numbers.
FMul(a, b) == Sgn(a) * Sgn(b) * MulNat(Abs(a), Abs(b))

\* Long division: the quotient n / d (n >= 0, 0 < d <= INF \div 10) carried
\* to k further decimal digits; q is the quotient so far, r the remainder.
RECURSIVE LongDiv(_, _, _, _)
LongDiv(q, r, d, k) ==
    IF k = 0 THEN q
    ELSE IF q > INF \div 10 THEN INF
    ELSE LongDiv(q * 10 + (r * 10) \div d, (r * 10) % d, d, k - 1)

\* floor(a * ONE / b) for a >= 0, b > 0.
DivNat(a, b) ==
    IF b > INF \div 10
    THEN a \div (b \div ONE)
    ELSE LongDiv(a \div b, a % b, b, 4)

\* a / b on numbers; x / 0 is +-Infinity (0 / 0, NaN, is never compared
\* true, which the callers get from INF as well).
FDiv(a, b) ==
    IF b = 0 THEN (IF a < 0 THEN -INF ELSE INF)
    ELSE Clamp(Sgn(a) * Sgn(b) * DivNat(Abs(a), Abs(b)))

\* Math.PI and 2 * Math.PI.
PI == 31416

TWO_PI == 2 * PI

\* 180 / Math.PI
RAD2DEG == 572958

\* sin on [0, PI/2] by its Taylor polynomial (Horner form), at most 1.
SinQ(x) ==
    LET x2 == (x * x) \div ONE
        t4 == ONE - x2 \div 72
        t3 == ONE - ((x2 \div 42) * t4) \div ONE
        t2 == ONE - ((x2 \div 20) * t3) \div ONE
        t1 == ONE - ((x2 \div 6) * t2) \div ONE
        v == (x * t1) \div ONE
    IN  IF v > ONE THEN ONE ELSE v

\* Math.sin
Sin(theta) ==
    LET a == theta % TWO_PI
    IN  IF a <= PI \div 2 THEN SinQ(a)
        ELSE IF a <= PI THEN SinQ(PI - a)
        ELSE IF a <= PI + PI \div 2 THEN -SinQ(a - PI)
        ELSE -SinQ(TWO_PI - a)

\* Math.cos
Cos(theta) == Sin(theta + PI \div 2)

\* e
E_NUM == 27183

\* e^n for a natural n.
RECURSIVE ExpInt(_)
ExpInt(n) == IF n = 0 THEN ONE ELSE FMul(E_NUM, ExpInt(n - 1))

\* e^f for 0 <= f < 1, Taylor polynomial of degree 8.
ExpFrac(f) ==
    LET t8 == ONE + f \div 8
        t7 == ONE + ((f \div 7) * t8) \div ONE
        t6 == ONE + ((f \div 6) * t7) \div ONE
        t5 == ONE + ((f \div 5) * t6) \div ONE
        t4 == ONE + ((f \div 4) * t5) \div ONE
        t3 == ONE + ((f \div 3) * t4) \div ONE
        t2 == ONE + ((f \div 2) * t3) \div ONE
    IN  ONE + (f * t2) \div ONE

\* Largest exponent whose exponential is finite.
EXP_MAX == 12

\* Math.exp for t >= 0.
ExpNat(t) ==
    IF t \div ONE >= EXP_MAX THEN INF
    ELSE FMul(ExpInt(t \div ONE), ExpFrac(t % ONE))

\* Math.cosh
Cosh(t) ==
    LET e == ExpNat(Abs(t))
    IN  IF e = INF THEN INF ELSE (e + FDiv(ONE, e)) \div 2

\* Math.sinh
Sinh(t) ==
    LET e == ExpNat(Abs(t))
    IN  IF e = INF THEN Sgn(t) * INF ELSE Sgn(t) * ((e - FDiv(ONE, e)) \div 2)

\* Integer square root of n >= 0 by bisection: lo * lo <= n < hi * hi.
RECURSIVE ISqrt(_, _, _)
ISqrt(n, lo, hi) ==
    IF hi - lo <= 1 THEN lo
    ELSE LET mid == (lo + hi) \div 2
         IN  IF mid * mid <= n THEN ISqrt(n, mid, hi) ELSE ISqrt(n, lo, mid)

\* Math.sqrt (of a number >= 0).
Sqrt(a) == IF a >= INF THEN INF ELSE ISqrt(a, 0, 31623) * 100

\* Math.pow(b, n) for a natural n, by squaring.
RECURSIVE Pow(_, _)
Pow(b, n) ==
    IF n = 0 THEN ONE
    ELSE LET h == Pow(b, n \div 2)
         IN  IF n % 2 = 0 THEN FMul(h, h) ELSE FMul(FMul(h, h), b)

\* ------------------------------------------------------------ constants

\* Speed of sound in mm/s (a plain integer, not a fixed-point number).
C_SOUND == 343200

\* The cap on the number of steps.  The source has 20000; the model scales
\* it down so that a run that is stopped by the cap can be explored.
MAX_STEPS == 200

SPIRAL_DETECTION_THRESHOLD_ANGLE == 90 * ONE

\* The rollback above which the spiral may start (roundOver > 100).
SPIRAL_MIN_ROUNDOVER == 100 * ONE

\* 0.005 degrees
EPSILON == 50

\* growthRate, 1.005
GROWTH_RATE == 10050

\* Iterations of the binary search.
SOLVER_ITERATIONS == 50

\* ------------------------------------------------------------ inputs

Params(fc, T, d0, roundOver) ==
    [fc |-> fc, T |-> T, d0 |-> d0, roundOver |-> roundOver]

\* The calls explored: the JmlcParams the calculator is constructed with and
\* the stepSize handed to generateProfile.
Calls ==
    { [params |-> Params(2000 * ONE, ONE, 20 * ONE, 90 * ONE), stepSize |-> ONE],
      [params |-> Params(2000 * ONE, ONE, 20 * ONE, 100 * ONE), stepSize |-> ONE],
      [params |-> Params(2000 * ONE, ONE, 20 * ONE, 180 * ONE), stepSize |-> ONE],
      [params |-> Params(2000 * ONE, ONE, 36 * ONE, 360 * ONE), stepSize |-> 2 * ONE],
      [params |-> Params(2000 * ONE, ONE \div 2, ONE, 360 * ONE), stepSize |-> 50 * ONE],
      [params |-> Params(5 * ONE, ONE, 20 * ONE, 90 * ONE), stepSize |-> ONE],
      [params |-> Params(800 * ONE, ONE, 20 * ONE, 180 * ONE), stepSize |-> ONE],
      [params |-> Params(-2000 * ONE, -ONE, 20 * ONE, 90 * ONE), stepSize |-> ONE],
      [params |-> Params(2000 * ONE, -(ONE \div 2), 20 * ONE, 90 * ONE), stepSize |-> ONE],
      [params |-> Params(2000 * ONE, ONE, 20 * ONE, 0), stepSize |-> ONE],
      [params |-> Params(0, ONE, 20 * ONE, 90 * ONE), stepSize |-> ONE],
      [params |-> Params(2000 * ONE, ONE, 0, 90 * ONE), stepSize |-> ONE],
      [params |-> Params(2000 * ONE, ONE, -20 * ONE, 180 * ONE), stepSize |-> ONE],
      [params |-> Params(0, ONE, 0, 180 * ONE), stepSize |-> ONE] }

MkPoint(index, px, py, len, radius, angle, deltaAngle) ==
    [index |-> index, x |-> px, y |-> py, length |-> len, radius |-> radius,
     angle |-> angle, deltaAngle |-> deltaAngle]

\* The calls a later invocation is made with, on the same calculator or on
\* another one: a run that turns into the spiral and collapses, a run that
\* stops on its first step, and a degenerate one.
Recalls ==
    { [params |-> Params(2000 * ONE, ONE \div 2, ONE, 360 * ONE), stepSize |-> 50 * ONE],
      [params |-> Params(2000 * ONE, ONE, 20 * ONE, 0), stepSize |-> ONE],
      [params |-> Params(0, ONE, 20 * ONE, 90 * ONE), stepSize |-> ONE] }

\* The number of invocations of generateProfile in one behaviour.
MaxCalls == 3

\* Point arrays handed to the exporters besides the profile just generated.
ExamplePoints ==
    { << >>,
      << MkPoint(0, 36 * ONE, 18 * ONE, 0, 25 * ONE, 0, 0) >>,
      << MkPoint(0, 0, 18 * ONE, 0, 18 * ONE, 0, 0),
         MkPoint(1, 9999, 180056, ONE, 181234, 3217, 3217),
         MkPoint(2, -12346, 180994, 2 * ONE, 190000, 9651, 6434) >> }

\* ------------------------------------------------------------ state

VARIABLES
    params,          \* this.params
    stepSize,        \* the argument of generateProfile
    pc,              \* "start", "loop" (at the loop test), "done" (returned)
    stop,            \* how the run left generateProfile
    i,               \* loop counter
    l, x, y,         \* path length and position
    previousAngle, previousDelta,
    isSpiraling, baseDeltaTheta, spiralStepCount,
    points,          \* the array being returned
    csvArg, csv,     \* argument and result of the last generateCSV call
    logArg, log,     \* argument and result of the last generateLog call
    history          \* the invocations that returned: arguments and result

vars == << params, stepSize, pc, stop, i, l, x, y, previousAngle,
           previousDelta, isSpiraling, baseDeltaTheta, spiralStepCount,
           points, csvArg, csv, logArg, log, history >>

exportVars == << csvArg, csv, logArg, log >>

\* ------------------------------------------------------------ area law

\* Product of m (carried to eight decimals) and a number.
MulFine(m, v) ==
    Sgn(m) * Sgn(v) *
      (MulNat(Abs(m) \div ONE, Abs(v)) + MulNat(Abs(m) % ONE, Abs(v)) \div ONE)

\* getM: (4 * PI * fc) / C_SOUND, carried to eight decimals.
getM(p) ==
    LET n == FMul(4 * PI, p.fc)
    IN  Sgn(n) * LongDiv(Abs(n) \div C_SOUND, Abs(n) % C_SOUND, C_SOUND, 4)

\* getTargetArea
getTargetArea(p, len) ==
    LET m == getM(p)
        r0 == FDiv(p.d0, 2 * ONE)
        s0 == FMul(FMul(PI, r0), r0)
        term == MulFine(m, len) \div 2
        expansionFactor == FAdd(Cosh(term), FMul(p.T, Sinh(term)))
    IN  FMul(FMul(s0, expansionFactor), expansionFactor)

\* 2 PI r^2 / (1 + cos theta): the area of the wavefront cap of radius r.
CapArea(r, theta) == FDiv(FMul(FMul(TWO_PI, r), r), ONE + Cos(theta))

\* Mutant: the cap area with the sign of the cosine turned, which has its
\* roots beyond PI.
S_geometryMirrored(yPrev, step, theta) ==
    FDiv(FMul(FMul(TWO_PI, FAdd(yPrev, FMul(step, Sin(theta)))),
              FAdd(yPrev, FMul(step, Sin(theta)))),
         ONE - Cos(theta))

\* S_geometry of a candidate angle (lines 119-124).
S_geometry(yPrev, step, theta) ==
    CapArea(FAdd(yPrev, FMul(step, Sin(theta))), theta)

\* The binary search of the physical solver (lines 112-132): the value of
\* theta after the iterations iter .. SOLVER_ITERATIONS - 1.  Once the
\* interval is at most one unit wide every further iteration recomputes
\* the midpoint minTheta and leaves theta there, so the rest is skipped.
RECURSIVE Solve(_, _, _, _, _, _, _)
Solve(iter, minTheta, maxTheta, theta, yPrev, step, S_target) ==
    IF iter >= SOLVER_ITERATIONS THEN theta
    ELSE IF maxTheta - minTheta <= 1 THEN minTheta
    ELSE LET mid == (minTheta + maxTheta) \div 2
         IN  IF S_geometry(yPrev, step, mid) < S_target
             THEN Solve(iter + 1, mid, maxTheta, mid, yPrev, step, S_target)
             ELSE Solve(iter + 1, minTheta, mid, mid, yPrev, step, S_target)

\* Mutant: a search of 8 iterations.
SolveThetaCoarse(yPrev, step, S_target) ==
    Solve(SOLVER_ITERATIONS - 8, 0, TWO_PI, 0, yPrev, step, S_target)

\* The solver started on [0, 2 PI] (lines 112-113).
SolveTheta(yPrev, step, S_target) ==
    Solve(0, 0, TWO_PI, 0, yPrev, step, S_target)

\* theta * (180 / Math.PI)
ToDeg(theta) == FMul(theta, RAD2DEG)

\* ------------------------------------------------------------ generateProfile

Init ==
    /\ \E c \in Calls : params = c.params /\ stepSize = c.stepSize
    /\ pc = "start"
    /\ stop = "none"
    /\ i = 0
    /\ l = 0
    /\ x = 0
    /\ y = 0
    /\ previousAngle = 0
    /\ previousDelta = 0
    /\ isSpiraling = FALSE
    /\ baseDeltaTheta = 0
    /\ spiralStepCount = 0
    /\ points = << >>
    /\ csvArg = << >>
    /\ csv = ""
    /\ logArg = << >>
    /\ log = ""
    /\ history = << >>

\* The arguments of the invocation in progress.
ThisCall == [params |-> params, stepSize |-> stepSize]

\* Line 200 and the return of line 49: the invocation hands its array back.
Return ==
    history' = IF pc' = "done"
               THEN Append(history, [call |-> ThisCall, result |-> points'])
               ELSE history

\* A further invocation of generateProfile, on this calculator or on a
\* newly constructed one (lines 24-26, 44).
Call ==
    /\ pc = "done"
    /\ Len(history) < MaxCalls
    /\ \E c \in Recalls : params' = c.params /\ stepSize' = c.stepSize
    /\ pc' = "start"
    /\ stop' = "none"
    /\ csvArg' = << >>
    /\ csv' = ""
    /\ logArg' = << >>
    /\ log' = ""
    /\ UNCHANGED << i, l, x, y, previousAngle, previousDelta, isSpiraling,
                    baseDeltaTheta, spiralStepCount, points, history >>

\* Mutant: the regime and the tracking of the previous step kept from the
\* invocation before.
StaleLocals ==
    /\ i' = 0
    /\ l' = 0
    /\ x' = 0
    /\ UNCHANGED << previousAngle, previousDelta, isSpiraling, baseDeltaTheta,
                    spiralStepCount >>

\* The locals of generateProfile as declared (lines 52-53, 69-77, 80).
FreshLocals ==
    /\ i' = 0
    /\ l' = 0
    /\ x' = 0
    /\ previousAngle' = 0
    /\ previousDelta' = 0
    /\ isSpiraling' = FALSE
    /\ baseDeltaTheta' = 0
    /\ spiralStepCount' = 0

\* Mutant: the seed at the throat diameter instead of the throat radius.
SeedPointFullDiameter(p) == MkPoint(0, 0, p.d0, 0, p.d0, 0, 0)

\* The initial point (lines 57-65).
SeedPoint(p) ==
    MkPoint(0, 0, FDiv(p.d0, 2 * ONE), 0, FDiv(p.d0, 2 * ONE), 0, 0)

\* Mutant: the safety check letting d0 = 0 through.
IsDegenerateNegativeOnly(p) == getM(p) = 0 \/ p.d0 < 0

\* Mutant: the safety check turning away every m <= 0.
IsDegenerateNonPositive(p) == getM(p) <= 0 \/ p.d0 <= 0

\* The safety check of line 49.
IsDegenerate(p) == getM(p) = 0 \/ p.d0 <= 0

\* Lines 44-78: the safety check, the initial state and the initial point.
Begin ==
    /\ pc = "start"
    /\ IF IsDegenerate(params)
       THEN /\ pc' = "done"
            /\ stop' = "degenerate"
            /\ y' = 0
            /\ points' = << >>
       ELSE /\ pc' = "loop"
            /\ stop' = "none"
            /\ y' = FDiv(params.d0, 2 * ONE)
            /\ points' = << SeedPoint(params) >>
    /\ FreshLocals
    /\ Return
    /\ UNCHANGED << params, stepSize >>
    /\ UNCHANGED exportVars

\* Mutant: the loop test off by one.
LoopTestInclusive == i <= MAX_STEPS

\* The loop test of line 80.
LoopTest == i < MAX_STEPS

\* Line 80, the test failing: the loop ends and the points are returned.
LoopExit ==
    /\ pc = "loop"
    /\ ~LoopTest
    /\ pc' = "done"
    /\ stop' = "cap"
    /\ UNCHANGED << params, stepSize, i, l, x, y, previousAngle, previousDelta,
                    isSpiraling, baseDeltaTheta, spiralStepCount, points >>
    /\ Return
    /\ UNCHANGED exportVars

\* Mutant: the rollback stop with an epsilon of 5 degrees.
RollbackStopEarly(theta) == ToDeg(theta) >= params.roundOver - 5 * ONE

\* Stop condition a (line 170).
RollbackStop(theta) == ToDeg(theta) >= params.roundOver - EPSILON

\* Mutant: no collapse stop.
CollapseStopNever(spiral, theta) == FALSE

\* Stop condition b (lines 175-178).
CollapseStop(spiral, theta) ==
    spiral /\ FAdd(y, FMul(stepSize, Sin(theta))) <= 0

\* Mutant: the point numbered by the loop counter itself.
StepPointIndexI(theta, S_target) ==
    MkPoint(i,
            FAdd(x, FMul(stepSize, Cos(theta))),
            FAdd(y, FMul(stepSize, Sin(theta))),
            FAdd(l, stepSize),
            Sqrt(FDiv(S_target, PI)),
            ToDeg(theta),
            ToDeg(theta - previousAngle))

\* The point pushed for a step of angle theta (lines 181-197).
StepPoint(theta, S_target) ==
    MkPoint(i + 1,
            FAdd(x, FMul(stepSize, Cos(theta))),
            FAdd(y, FMul(stepSize, Sin(theta))),
            FAdd(l, stepSize),
            Sqrt(FDiv(S_target, PI)),
            ToDeg(theta),
            ToDeg(theta - previousAngle))

\* Mutant: the point is pushed before the stop conditions are looked at.
FinishPushFirst(theta, spiral, S_target) ==
    \E pt \in { StepPoint(theta, S_target) } :
        /\ x' = pt.x
        /\ y' = pt.y
        /\ l' = pt.length
        /\ previousAngle' = theta
        /\ points' = Append(points, pt)
        /\ i' = i + 1
        /\ IF RollbackStop(theta)
           THEN pc' = "done" /\ stop' = "rollback"
           ELSE IF CollapseStop(spiral, theta)
           THEN pc' = "done" /\ stop' = "collapse"
           ELSE UNCHANGED << pc, stop >>

\* Lines 164-198: stop conditions, state update and push, for a step whose
\* angle is theta; spiral is the regime after the step's angle was chosen.
Finish(theta, spiral, S_target) ==
    IF RollbackStop(theta)
    THEN /\ pc' = "done"
         /\ stop' = "rollback"
         /\ UNCHANGED << i, l, x, y, previousAngle, points >>
    ELSE IF CollapseStop(spiral, theta)
    THEN /\ pc' = "done"
         /\ stop' = "collapse"
         /\ UNCHANGED << i, l, x, y, previousAngle, points >>
    ELSE \E pt \in { StepPoint(theta, S_target) } :
         /\ x' = pt.x
         /\ y' = pt.y
         /\ l' = pt.length
         /\ previousAngle' = theta
         /\ points' = Append(points, pt)
         /\ i' = i + 1
         /\ UNCHANGED << pc, stop >>

\* Mutant: the spiral allowed from a rollback of 100 degrees on.
ShouldSpiralFrom100(theta) ==
    /\ theta - previousAngle < previousDelta
    /\ ToDeg(theta) > SPIRAL_DETECTION_THRESHOLD_ANGLE
    /\ params.roundOver >= SPIRAL_MIN_ROUNDOVER

\* Lines 140-146: the test that switches to the spiral, for the angle theta
\* the solver found.
ShouldSpiral(theta) ==
    /\ theta - previousAngle < previousDelta
    /\ ToDeg(theta) > SPIRAL_DETECTION_THRESHOLD_ANGLE
    /\ params.roundOver > SPIRAL_MIN_ROUNDOVER

\* Mutant: the decelerated increment of the transition step as the base.
TransitionBaseDecelerated(solved) == solved - previousAngle

\* The base increment captured at the transition (line 149): the previous
\* step's increment, whatever the solver found for this one.
TransitionBase(solved) == previousDelta

\* One iteration of the loop in the physical regime (lines 80-88, 105-198).
PhysicalStep ==
    /\ pc = "loop"
    /\ LoopTest
    /\ ~isSpiraling
    /\ \E S_target \in { getTargetArea(params, FAdd(l, stepSize)) } :
       \E solved \in { SolveTheta(y, stepSize, S_target) } :
       \E switch \in { ShouldSpiral(solved) } :
       \E base \in { TransitionBase(solved) } :
       \E theta \in { IF switch THEN previousAngle + base ELSE solved } :
          /\ isSpiraling' = switch
          /\ baseDeltaTheta' = IF switch THEN base ELSE baseDeltaTheta
          /\ previousDelta' = IF switch THEN previousDelta
                              ELSE theta - previousAngle
          /\ Finish(theta, switch, S_target)
    /\ Return
    /\ UNCHANGED << params, stepSize, spiralStepCount >>
    /\ UNCHANGED exportVars

\* Mutant: the increment shrinking by the growth rate.
SpiralDeltaShrinking(base, n) == FDiv(base, Pow(GROWTH_RATE, n))

\* Mutant: the exponent one step ahead.
SpiralDeltaAhead(base, n) == FMul(base, Pow(GROWTH_RATE, n + 1))

\* The increment of the spiral step numbered n (lines 100-102).
SpiralDelta(base, n) == FMul(base, Pow(GROWTH_RATE, n))

\* Mutant: a spiral step that takes its own increment as the new base.
SpiralStepRebased ==
    /\ pc = "loop"
    /\ LoopTest
    /\ isSpiraling
    /\ spiralStepCount' = spiralStepCount + 1
    /\ baseDeltaTheta' = SpiralDelta(baseDeltaTheta, spiralStepCount + 1)
    /\ \E S_target \in { getTargetArea(params, FAdd(l, stepSize)) } :
       \E theta \in { FAdd(previousAngle,
                           SpiralDelta(baseDeltaTheta, spiralStepCount + 1)) } :
          Finish(theta, TRUE, S_target)
    /\ Return
    /\ UNCHANGED << params, stepSize, previousDelta, isSpiraling >>
    /\ UNCHANGED exportVars

\* One iteration of the loop in the spiral regime (lines 80-104, 156-198).
SpiralStep ==
    /\ pc = "loop"
    /\ LoopTest
    /\ isSpiraling
    /\ spiralStepCount' = spiralStepCount + 1
    /\ \E S_target \in { getTargetArea(params, FAdd(l, stepSize)) } :
       \E theta \in { FAdd(previousAngle,
                           SpiralDelta(baseDeltaTheta, spiralStepCount + 1)) } :
          Finish(theta, TRUE, S_target)
    /\ Return
    /\ UNCHANGED << params, stepSize, previousDelta, isSpiraling,
                    baseDeltaTheta >>
    /\ UNCHANGED exportVars

\* ------------------------------------------------------------ exporters

RECURSIVE Pow10(_)
Pow10(n) == IF n = 0 THEN 1 ELSE 10 * Pow10(n - 1)

\* The last d decimal digits of n, with leading zeros.
RECURSIVE Digits(_, _)
Digits(n, d) ==
    IF d = 0 THEN "" ELSE Digits(n \div 10, d - 1) \o ToString(n % 10)

\* Number.prototype.toFixed(d) of the number v / 10^k (k >= d): the sign,
\* then the magnitude rounded to d decimals, halves upwards.
ToFixed(v, k, d) ==
    LET unit == Pow10(k - d)
        n == (Abs(v) + unit \div 2) \div unit
    IN  (IF v < 0 THEN "-" ELSE "") \o ToString(n \div Pow10(d)) \o "."
        \o Digits(n % Pow10(d), d)

\* Mutant: the row in millimetres.
CsvRowMillimetres(p) ==
    ToFixed(p.x, 4, 4) \o "," \o ToFixed(p.y, 4, 4) \o ",0.0000\n"

\* One row of generateCSV (line 207).  x / 10 and y / 10 are exact with
\* five decimals: the fixed-point value read with one more decimal place.
CsvRow(p) ==
    ToFixed(p.x, 5, 4) \o "," \o ToFixed(p.y, 5, 4) \o ",0.0000\n"

RECURSIVE CsvRows(_)
CsvRows(ps) ==
    IF ps = << >> THEN "" ELSE CsvRow(Head(ps)) \o CsvRows(Tail(ps))

\* generateCSV (lines 203-210)
generateCSV(ps) == "X (cm),Y (cm),Z (cm)\n" \o CsvRows(ps)

\* growth of line 216: (deltaAngle / (angle - deltaAngle || 1)) * 100
Growth(p) ==
    LET d == p.angle - p.deltaAngle
    IN  FMul(FDiv(p.deltaAngle, IF d = 0 THEN ONE ELSE d), 100 * ONE)

\* Mutant: the Radius column filled from the radius field.
LogRowPlanarRadius(p) ==
    ToString(p.index) \o "," \o ToFixed(p.length, 4, 2) \o ","
    \o ToFixed(p.radius, 4, 2) \o "," \o ToFixed(p.angle, 4, 3) \o ","
    \o ToFixed(p.deltaAngle, 4, 4) \o "," \o ToFixed(Growth(p), 4, 4) \o "\n"

\* One row of generateLog (lines 217-221).
LogRow(p) ==
    ToString(p.index) \o "," \o ToFixed(p.length, 4, 2) \o ","
    \o ToFixed(p.y, 4, 2) \o "," \o ToFixed(p.angle, 4, 3) \o ","
    \o ToFixed(p.deltaAngle, 4, 4) \o "," \o ToFixed(Growth(p), 4, 4) \o "\n"

RECURSIVE LogRows(_)
LogRows(ps) ==
    IF ps = << >> THEN "" ELSE LogRow(Head(ps)) \o LogRows(Tail(ps))

\* generateLog (lines 212-224)
generateLog(ps) ==
    "Index,Length (mm),Radius (mm),Angle (deg),Delta Angle (deg),Growth (%)\n"
    \o LogRows(ps)

\* The arrays the exporters are called with: the profile that was returned,
\* or any other array of points.
ExportInputs == { points } \cup ExamplePoints

\* A call of generateCSV.
ExportCSV ==
    /\ pc = "done"
    /\ \E ps \in ExportInputs :
          /\ csvArg' = ps
          /\ csv' = generateCSV(ps)
    /\ UNCHANGED << params, stepSize, pc, stop, i, l, x, y, previousAngle,
                    previousDelta, isSpiraling, baseDeltaTheta,
                    spiralStepCount, points, logArg, log, history >>

\* A call of generateLog.
ExportLog ==
    /\ pc = "done"
    /\ \E ps \in ExportInputs :
          /\ logArg' = ps
          /\ log' = generateLog(ps)
    /\ UNCHANGED << params, stepSize, pc, stop, i, l, x, y, previousAngle,
                    previousDelta, isSpiraling, baseDeltaTheta,
                    spiralStepCount, points, csvArg, csv, history >>

Next ==
    \/ Begin
    \/ PhysicalStep
    \/ SpiralStep
    \/ LoopExit
    \/ ExportCSV
    \/ ExportLog
    \/ Call

Spec == Init /\ [][Next]_vars

\* ------------------------------------------------------------ properties

\* The angle (radians) of the step the loop is about to take, and the
\* regime that step is taken in.
NextSolved == SolveTheta(y, stepSize, getTargetArea(params, FAdd(l, stepSize)))

NextSwitches == ~isSpiraling /\ ShouldSpiral(NextSolved)

NextTheta ==
    IF isSpiraling
    THEN FAdd(previousAngle,
              FMul(baseDeltaTheta, Pow(GROWTH_RATE, spiralStepCount + 1)))
    ELSE IF NextSwitches THEN previousAngle + previousDelta
    ELSE NextSolved

\* The angle (radians) of the step that ended a run by a stop condition.
StoppedTheta ==
    previousAngle +
      (IF isSpiraling
       THEN FMul(baseDeltaTheta, Pow(GROWTH_RATE, spiralStepCount))
       ELSE previousDelta)

LastPoint == points[Len(points)]

\* C1: when fc # 0 and d0 > 0 the first element of the returned array is
\* the seed point: index 0, x 0, y d0/2, length 0, angle 0, deltaAngle 0,
\* whichever way the run ends.
C1_SeedPointFirst ==
    (pc # "start" /\ params.fc # 0 /\ params.d0 > 0) =>
        /\ Len(points) >= 1
        /\ points[1].index = 0
        /\ points[1].x = 0
        /\ 2 * points[1].y = params.d0
        /\ points[1].length = 0
        /\ points[1].angle = 0
        /\ points[1].deltaAngle = 0

\* The first step already triggers the rollback stop: the seed alone.
C1_Witness ==
    /\ pc = "done"
    /\ stop = "rollback"
    /\ params.d0 > 0
    /\ Len(points) = 1

\* C2: generateProfile terminates within MAX_STEPS iterations: every pass
\* through the loop either returns or advances the counter i, which never
\* exceeds MAX_STEPS, the array never holds more than MAX_STEPS + 1
\* points, and an invocation that returned does not go back to its loop.
C2_StepCap ==
    [][ /\ pc = "loop" =>
              \/ pc' = "done"
              \/ pc' = "loop" /\ i' = i + 1 /\ i' <= MAX_STEPS
        /\ Len(points') <= MAX_STEPS + 1
        /\ Len(points') <= i' + 1
        /\ pc = "done" => pc' # "loop"
      ]_vars

\* A run ended by the cap, with the seed and MAX_STEPS steps.
C2_Witness ==
    /\ pc = "done"
    /\ stop = "cap"
    /\ i = MAX_STEPS
    /\ Len(points) = MAX_STEPS + 1

\* C3: the returned array is empty exactly when fc = 0 or d0 <= 0.
C3_DegenerateEmpty ==
    /\ pc = "done" => ((params.fc = 0 \/ params.d0 <= 0) <=> points = << >>)
    /\ pc = "loop" => points # << >>

C3_Witness ==
    /\ pc = "done"
    /\ stop = "degenerate"
    /\ params.fc = 0
    /\ params.d0 > 0
    /\ points = << >>

\* C4 as claimed: a run ended by the rollback stop has a last point whose
\* angle is within EPSILON of roundOver.
C4_LastAngleWithinEpsilon ==
    (pc = "done" /\ stop = "rollback") =>
        Abs(LastPoint.angle - params.roundOver) <= EPSILON

\* C4 as amended: a run ended by the rollback stop was ended by a step,
\* not emitted, whose angle is at least roundOver - EPSILON, and its last
\* emitted point, unless it is the seed, has an angle strictly below
\* roundOver - EPSILON.
C4_StopsBelowLimit ==
    (pc = "done" /\ stop = "rollback") =>
        /\ ToDeg(StoppedTheta) >= params.roundOver - EPSILON
        /\ Len(points) > 1 => LastPoint.angle < params.roundOver - EPSILON

\* A rollback stop whose last point is more than a degree short.
C4_Witness ==
    /\ pc = "done"
    /\ stop = "rollback"
    /\ Len(points) > 1
    /\ params.roundOver - LastPoint.angle > ONE

\* C5: a step that meets a stop condition ends the run and pushes nothing;
\* any other step pushes exactly its own point, whose angle is strictly
\* below roundOver - EPSILON, after the points already there; nothing is
\* pushed after the run has ended.
C5_StopStepNotEmitted ==
    [][ /\ (pc = "loop" /\ LoopTest) =>
              IF \/ ToDeg(NextTheta) >= params.roundOver - EPSILON
                 \/ /\ isSpiraling \/ NextSwitches
                    /\ FAdd(y, FMul(stepSize, Sin(NextTheta))) <= 0
              THEN pc' = "done" /\ points' = points
              ELSE /\ pc' = "loop"
                   /\ Len(points') = Len(points) + 1
                   /\ SubSeq(points', 1, Len(points)) = points
                   /\ points'[Len(points')].index = Len(points)
                   /\ points'[Len(points')].angle = ToDeg(NextTheta)
                   /\ points'[Len(points')].angle < params.roundOver - EPSILON
        /\ pc = "done" => points' = points
      ]_vars

\* A run ended by the radius collapse after several steps.
C5_Witness ==
    /\ pc = "done"
    /\ stop = "collapse"
    /\ Len(points) > 2

\* The number of points emitted since (and with) the transition step.
SpiralEmitted ==
    IF pc = "done" /\ stop \in {"rollback", "collapse"}
    THEN spiralStepCount
    ELSE spiralStepCount + 1

\* C6: the n-th point emitted in the spiral, counted from the transition
\* step (n = 0), has the increment baseDeltaTheta * 1.005^n.
C6_SpiralIncrements ==
    (pc # "start" /\ isSpiraling) =>
        \A n \in 0 .. (SpiralEmitted - 1) :
            points[Len(points) - SpiralEmitted + 1 + n].deltaAngle =
                ToDeg(FMul(baseDeltaTheta, Pow(GROWTH_RATE, n)))

C6_Witness ==
    /\ pc = "loop"
    /\ isSpiraling
    /\ spiralStepCount >= 5
    /\ baseDeltaTheta > 0

EmittedByPhysical ==
    /\ pc = "loop"
    /\ ~isSpiraling
    /\ ~isSpiraling'
    /\ Len(points') = Len(points) + 1

\* The area computed from the emitted y and angle matches the target area
\* at the emitted length within the resolution of the search: the target
\* lies between it and the area one unit of angle further.
AreaMatches ==
    /\ CapArea(y', previousAngle') <= getTargetArea(params, l')
    /\ getTargetArea(params, l') <= S_geometry(y, stepSize, previousAngle' + 1)

\* C8 as claimed: every point emitted by a physical step matches the
\* target area.
C8_AreaMatchesAlways == [][ EmittedByPhysical => AreaMatches ]_vars

\* C8 as amended: a point emitted by a physical step matches the target
\* area when the target area is at least PI * y^2, the area at angle 0
\* through the previous point.
C8_AreaMatchesWhenSolvable ==
    [][ (EmittedByPhysical /\ getTargetArea(params, l') >= CapArea(y, 0))
            => AreaMatches ]_vars

C8_Witness ==
    /\ pc = "loop"
    /\ ~isSpiraling
    /\ Len(points) > 20
    /\ previousAngle > 0
    /\ getTargetArea(params, l) >= CapArea(points[Len(points) - 1].y, 0)

\* A value in mm as text in cm with four decimals.
Cm4(v) ==
    LET n == (Abs(v) + 5) \div 10
    IN  (IF v < 0 THEN "-" ELSE "") \o ToString(n \div 10000) \o "."
        \o Digits(n % 10000, 4)

\* The header and the rows of the first n points, in order.
RECURSIVE CsvExpected(_, _)
CsvExpected(ps, n) ==
    IF n = 0 THEN "X (cm),Y (cm),Z (cm)\n"
    ELSE CsvExpected(ps, n - 1) \o Cm4(ps[n].x) \o "," \o Cm4(ps[n].y)
         \o ",0.0000\n"

\* C9: generateCSV returns the header and one row per point in order,
\* x/10 and y/10 with four decimals and then 0.0000; x = 36, y = 18 gives
\* 3.6000,1.8000,0.0000 and no points give the header alone.
C9_CsvRows ==
    csv # "" =>
        /\ csv = CsvExpected(csvArg, Len(csvArg))
        /\ csvArg = << >> => csv = "X (cm),Y (cm),Z (cm)\n"
        /\ (Len(csvArg) = 1 /\ csvArg[1].x = 36 * ONE /\ csvArg[1].y = 18 * ONE)
              => csv = "X (cm),Y (cm),Z (cm)\n3.6000,1.8000,0.0000\n"

C9_Witness ==
    /\ csv # ""
    /\ Len(csvArg) = 1
    /\ csvArg[1].x = 36 * ONE
    /\ csvArg[1].y = 18 * ONE

\* The Growth column: deltaAngle / (angle - deltaAngle) * 100, the divisor
\* being 1 when angle - deltaAngle is 0.
GrowthExpected(p) ==
    IF p.angle - p.deltaAngle = 0
    THEN FMul(p.deltaAngle, 100 * ONE)
    ELSE FMul(FDiv(p.deltaAngle, p.angle - p.deltaAngle), 100 * ONE)

\* The row of a point: index, length, y, angle, increment and growth.
LogRowExpected(p) ==
    ToString(p.index) \o "," \o ToFixed(p.length, 4, 2) \o ","
    \o ToFixed(p.y, 4, 2) \o "," \o ToFixed(p.angle, 4, 3) \o ","
    \o ToFixed(p.deltaAngle, 4, 4) \o ","
    \o ToFixed(GrowthExpected(p), 4, 4) \o "\n"

RECURSIVE LogExpected(_, _)
LogExpected(ps, n) ==
    IF n = 0
    THEN "Index,Length (mm),Radius (mm),Angle (deg),Delta Angle (deg),Growth (%)\n"
    ELSE LogExpected(ps, n - 1) \o LogRowExpected(ps[n])

\* C10: generateLog returns one row per point in order, with the point's y
\* in the Radius column and deltaAngle / (angle - deltaAngle) * 100 in the
\* Growth column, the divisor being 1 when it would be 0; a seed row has
\* Growth 0.
C10_LogRows ==
    log # "" =>
        /\ log = LogExpected(logArg, Len(logArg))
        /\ \A k \in 1 .. Len(logArg) :
              logArg[k].deltaAngle = 0 => GrowthExpected(logArg[k]) = 0
        /\ Len(logArg) = 3 =>
              log = "Index,Length (mm),Radius (mm),Angle (deg),Delta Angle (deg),Growth (%)\n"
                    \o "0,0.00,18.00,0.000,0.0000,0.0000\n"
                    \o "1,1.00,18.01,0.322,0.3217,32.1700\n"
                    \o "2,2.00,18.10,0.965,0.6434,200.0000\n"

\* The log of a generated profile with a point whose angle equals its
\* increment (the divisor would be 0).
C10_Witness ==
    /\ log # ""
    /\ logArg = points
    /\ Len(points) > 50
    /\ points[2].angle = points[2].deltaAngle
    /\ points[2].deltaAngle > 0

\* C11: invocations of generateProfile are independent and deterministic.
\* Two invocations with the same parameters and stepSize return equal
\* arrays whatever ran before or between them; every invocation starts its
\* loop in the physical regime with previous angle, previous increment,
\* base increment and spiral step counter at 0; and only the construction
\* of a calculator sets the parameters.
C11_Independent ==
    /\ [](\A a, b \in 1..Len(history) :
             history[a].call = history[b].call =>
                 history[a].result = history[b].result)
    /\ [][/\ pc = "start" =>
                /\ isSpiraling' = FALSE
                /\ previousAngle' = 0
                /\ previousDelta' = 0
                /\ baseDeltaTheta' = 0
                /\ spiralStepCount' = 0
          /\ pc' # "start" => (params' = params /\ stepSize' = stepSize)]_vars

\* A spiral run repeated after a different invocation ran in between.
C11_Witness ==
    /\ Len(history) = 3
    /\ history[1].call = history[3].call
    /\ history[2].call # history[1].call
    /\ Len(history[2].result) >= 1
    /\ Len(history[3].result) > 1
    /\ isSpiraling

\* C12: in the array being built and in the one returned, the k-th point
\* (counted from 0) has index k and, for stepSize > 0, length k * stepSize,
\* so indices increase by one and arc length never decreases, in the
\* physical regime and in the spiral.
C12_IndexAndLength ==
    pc # "start" =>
        \A k \in 1 .. Len(points) :
            /\ points[k].index = k - 1
            /\ stepSize > 0 => points[k].length = (k - 1) * stepSize
            /\ (stepSize > 0 /\ k > 1) =>
                   points[k].length >= points[k - 1].length

\* A returned profile with a long spiral part and a stepSize other than 1.
C12_Witness ==
    /\ pc = "done"
    /\ stepSize = 2 * ONE
    /\ isSpiraling
    /\ spiralStepCount > 20
    /\ Len(points) > 50

\* C13 as claimed: for every cutoff fc <= 0, negative ones as well as zero,
\* generateProfile returns the empty array.
C13_NonPositiveCutoffEmpty ==
    (pc = "done" /\ params.fc <= 0) => points = << >>

\* C13, what the code does: the safety check compares m with 0 only, so a
\* negative cutoff with d0 > 0 gets past it and the array returned holds at
\* least the seed point; the array is empty for fc = 0.
C13_NegativeCutoffRuns ==
    /\ (pc = "done" /\ params.fc < 0 /\ params.d0 > 0) => Len(points) >= 1
    /\ (pc = "done" /\ params.fc = 0) => points = << >>

\* A profile returned for a negative cutoff.
C13_Witness ==
    /\ pc = "done"
    /\ params.fc < 0
    /\ Len(points) > 1

\* C14: the spiral is absorbing.  Once a run is in the spiral it stays
\* there and its base increment and previous increment are frozen; every
\* further pass through the loop counts one more spiral step and a point
\* it emits has the angle previousAngle + baseDeltaTheta * 1.005^n, not
\* an angle found by the solver.
C14_SpiralAbsorbing ==
    [][ /\ (pc \in {"loop", "done"} /\ isSpiraling) =>
              /\ isSpiraling'
              /\ baseDeltaTheta' = baseDeltaTheta
              /\ previousDelta' = previousDelta
        /\ (pc = "loop" /\ isSpiraling /\ LoopTest) =>
              /\ spiralStepCount' = spiralStepCount + 1
              /\ Len(points') > Len(points) =>
                    /\ previousAngle' =
                          FAdd(previousAngle,
                               FMul(baseDeltaTheta,
                                    Pow(GROWTH_RATE, spiralStepCount')))
                    /\ points'[Len(points')].angle = ToDeg(previousAngle')
      ]_vars

\* A run that ended after a long stay in the spiral.
C14_Witness ==
    /\ pc = "done"
    /\ stop = "rollback"
    /\ isSpiraling
    /\ spiralStepCount >= 40
    /\ baseDeltaTheta > 0

\* C15: on the step where the transition fires the base increment is the
\* previous step's increment, the angle the solver found (which lies below)
\* is discarded for previousAngle + baseDeltaTheta, no spiral step is
\* counted yet, and the point emitted for the step has the deltaAngle of
\* the point before it.
C15_TransitionKeepsIncrement ==
    [][ (pc = "loop" /\ ~isSpiraling /\ isSpiraling') =>
            /\ baseDeltaTheta' = previousDelta
            /\ previousDelta' = previousDelta
            /\ spiralStepCount' = 0
            /\ NextSolved < previousAngle + previousDelta
            /\ Len(points') > Len(points) =>
                  /\ previousAngle' = previousAngle + previousDelta
                  /\ points'[Len(points')].angle =
                        ToDeg(previousAngle + previousDelta)
                  /\ points'[Len(points')].deltaAngle =
                        points[Len(points)].deltaAngle
            /\ Len(points') = Len(points) =>
                  /\ pc' = "done"
                  /\ previousAngle' = previousAngle
      ]_vars

\* The state right after a transition step that emitted its point, the
\* point before it coming from the solver.
C15_Witness ==
    /\ pc = "loop"
    /\ isSpiraling
    /\ spiralStepCount = 0
    /\ Len(points) > 2
    /\ baseDeltaTheta > 0
    /\ LastPoint.deltaAngle = points[Len(points) - 1].deltaAngle
    /\ LastPoint.deltaAngle > 0

\* The radius the step about to be taken would reach.
NextY == FAdd(y, FMul(stepSize, Sin(NextTheta)))

\* C16: every point emitted in the spiral, the transition step's included,
\* has y > 0.  A spiral step whose next radius would be <= 0 ends the run
\* without emitting a point, and x, y and l stay as the last emitted point
\* left them.
C16_SpiralRadiusPositive ==
    [][ /\ (pc = "loop" /\ isSpiraling' /\ Len(points') > Len(points)) =>
              /\ y' > 0
              /\ points'[Len(points')].y = y'
        /\ (pc = "loop" /\ LoopTest /\ (isSpiraling \/ NextSwitches)
               /\ NextY <= 0) =>
              /\ pc' = "done"
              /\ stop' \in {"rollback", "collapse"}
              /\ points' = points
              /\ x' = x /\ y' = y /\ l' = l
              /\ y = points[Len(points)].y
              /\ l = points[Len(points)].length
      ]_vars

\* A spiral run ended by the collapse stop: the step not taken would have
\* brought the radius to 0 or below.
C16_Witness ==
    /\ pc = "done"
    /\ stop = "collapse"
    /\ isSpiraling
    /\ spiralStepCount >= 1
    /\ y > 0
    /\ y = LastPoint.y
    /\ FAdd(y, FMul(stepSize, Sin(StoppedTheta))) <= 0

\* C17: for d0 > 0 and stepSize > 0 a step of the physical regime that
\* emits its point never lowers y: the angle the solver returns lies in
\* [0, PI], its sine is not negative, and y stays at or above d0 / 2.
C17_PhysicalRadiusMonotone ==
    [][ (pc = "loop" /\ ~isSpiraling' /\ Len(points') > Len(points)
           /\ params.d0 > 0 /\ stepSize > 0) =>
            /\ previousAngle' = NextSolved
            /\ previousAngle' >= 0
            /\ previousAngle' <= PI
            /\ Sin(previousAngle') >= 0
            /\ y' >= y
            /\ 2 * y' >= params.d0
            /\ points'[Len(points')].y >= points[Len(points)].y
      ]_vars

\* A physical step past 90 degrees, where sin(theta) is already falling,
\* that still raised y.
C17_Witness ==
    /\ pc = "loop"
    /\ ~isSpiraling
    /\ Len(points) > 10
    /\ LastPoint.angle > 95 * ONE
    /\ LastPoint.y > points[Len(points) - 1].y

\* C18 as claimed: after a transition the increment is positive and the run
\* ends by the rollback stop or by the collapse stop, never by the cap.
C18_SpiralNeverCapped ==
    /\ (pc # "start" /\ isSpiraling) => baseDeltaTheta > 0
    /\ (pc = "done" /\ isSpiraling) => stop \in {"rollback", "collapse"}

\* C18, amended: after a transition the base increment is positive, the
\* increment of a spiral step is positive and not below the one before
\* (the factor 1.005 is rounded to four decimals here), and the angle of
\* every emitted point is above the angle of the point before.  The run
\* ends by the rollback stop, by the collapse stop, or by the cap when the
\* iterations left after the transition run out with the angle still
\* below roundOver - EPSILON and the radius still positive.
C18_SpiralAdvances ==
    /\ []((pc # "start" /\ isSpiraling) => baseDeltaTheta > 0)
    /\ []((pc = "done" /\ isSpiraling) =>
             \/ stop = "rollback" /\ ToDeg(StoppedTheta) >= params.roundOver - EPSILON
             \/ stop = "collapse"
             \/ /\ stop = "cap"
                /\ i = MAX_STEPS
                /\ Len(points) = MAX_STEPS + 1
                /\ ToDeg(previousAngle) < params.roundOver - EPSILON
                /\ y > 0)
    /\ [][ (pc = "loop" /\ isSpiraling /\ LoopTest) =>
             /\ SpiralDelta(baseDeltaTheta, spiralStepCount') > 0
             /\ SpiralDelta(baseDeltaTheta, spiralStepCount') >=
                   SpiralDelta(baseDeltaTheta, spiralStepCount)
             /\ Len(points') > Len(points) =>
                   /\ previousAngle' > previousAngle
                   /\ points'[Len(points')].angle > points[Len(points)].angle
                   /\ points'[Len(points')].deltaAngle >=
                         points[Len(points)].deltaAngle
          ]_vars

\* A run that went into the spiral late and was ended by the cap, its
\* angle short of the rollback asked for.
C18_Witness ==
    /\ pc = "done"
    /\ stop = "cap"
    /\ isSpiraling
    /\ spiralStepCount >= 5
    /\ baseDeltaTheta > 0
    /\ LastPoint.angle > points[Len(points) - 1].angle
    /\ LastPoint.angle < params.roundOver - EPSILON

====
